---- MODULE Spec2Model ----
(***************************************************************************)
(* Events API (backend/main.py): five request handlers over one DynamoDB   *)
(* table keyed by eventId.  Requests run in separate workers (Lambda       *)
(* invocations), so handlers interleave at their store calls; the table    *)
(* gives single-item atomicity only.                                       *)
(***************************************************************************)
EXTENDS Integers, Sequences, FiniteSets, TLC

VARIABLES
    store,   \* the table: eventId -> item (attribute name -> attribute value)
    pc,      \* per worker: "idle", "upd_write", "del_write" or "done"
    req,     \* per worker: the request being (or last) handled
    resp,    \* per worker: the response of that request and its store calls
    now,     \* the clock read by datetime.utcnow()
    uuids,   \* how many identifiers uuid.uuid4() has produced
    nreq,    \* how many requests have been started
    deleted, \* history: ids deleted with success and not created since
    applied  \* history: per id, the field values set by the updates that
             \* answered 200 since the record was last put, and not rewritten

vars == <<store, pc, req, resp, now, uuids, nreq, deleted, applied>>

----------------------------------------------------------------------------
\* Bounds of the exploration.
NumWorkers == 2
MaxReqs == 2
MaxClock == 1
MaxUuid == 1

Workers == 1..NumWorkers

----------------------------------------------------------------------------
\* Attribute values, typed as the table types them.
Str(s) == <<"S", s>>
Num(n) == <<"N", n>>
Null == <<"NULL">>
\* datetime.isoformat() of the clock value t: an injective rendering.
IsoFormat(t) == <<"TS", t>>

IsStr(v) == v[1] = "S"
IsNum(v) == v[1] = "N"

Has(r, f) == f \in DOMAIN r
EmptyRec == [f \in {} |-> Null]
Restrict(r, fs) == [f \in (DOMAIN r) \cap fs |-> r[f]]

----------------------------------------------------------------------------
\* Field constraints of the pydantic models.
TitleMax == 200
DescriptionMax == 2000
LocationMax == 300
OrganizerMax == 200
CapacityMax == 100000

AllowedStatuses == {"scheduled", "ongoing", "completed", "cancelled", "active"}
DefaultStatus == "scheduled"

StringFields == {"title", "description", "location", "organizer"}
CoreFields == {"title", "description", "date", "location", "capacity", "organizer"}
BaseFields == CoreFields \cup {"status"}
EventFields == BaseFields \cup {"eventId"}

MaxLength(f) ==
    CASE f = "title" -> TitleMax
      [] f = "description" -> DescriptionMax
      [] f = "location" -> LocationMax
      [] f = "organizer" -> OrganizerMax

\* The date strings the samples use, and whether datetime.fromisoformat
\* accepts them after replacing 'Z' by '+00:00'.
IsoParseable(s) == s \in {"2024-12-15", "2024-12-15T09:00:00Z", "2025-01-20"}

\* validate_status
ValidateStatus(v) == IsStr(v) /\ v[2] \in AllowedStatuses

\* validate_date
ValidateDate(v) == IsStr(v) /\ IsoParseable(v[2])

\* Variant: capacity declared ge=0 instead of gt=0.
FieldValidCapacityGe(f, v) ==
    CASE f \in StringFields -> IsStr(v) /\ Len(v[2]) >= 1 /\ Len(v[2]) <= MaxLength(f)
      [] f = "capacity" -> IsNum(v) /\ v[2] >= 0 /\ v[2] <= CapacityMax
      [] f = "date" -> ValidateDate(v)
      [] f = "status" -> ValidateStatus(v)

\* One field of EventBase: the Field(...) constraints and the validators.
FieldValid(f, v) ==
    CASE f \in StringFields -> IsStr(v) /\ Len(v[2]) >= 1 /\ Len(v[2]) <= MaxLength(f)
      [] f = "capacity" -> IsNum(v) /\ v[2] > 0 /\ v[2] <= CapacityMax
      [] f = "date" -> ValidateDate(v)
      [] f = "status" -> ValidateStatus(v)

\* EventBase: the six required fields, status defaulting to "scheduled".
BaseValid(p) ==
    /\ \A f \in CoreFields : Has(p, f) /\ FieldValid(f, p[f])
    /\ Has(p, "status") => FieldValid("status", p["status"])

BaseParse(p) ==
    [f \in BaseFields |-> IF Has(p, f) THEN p[f] ELSE Str(DefaultStatus)]

\* EventCreate: EventBase plus an optional eventId (None when absent or null).
CreateValid(p) ==
    /\ BaseValid(p)
    /\ Has(p, "eventId") => (p["eventId"] = Null \/ IsStr(p["eventId"]))

\* EventUpdate: every field Optional; an explicit null passes validation.
UpdateValid(p) ==
    \A f \in (DOMAIN p) \cap BaseFields : p[f] = Null \/ FieldValid(f, p[f])

\* event_update.dict(exclude_unset=True): the fields the request body set,
\* explicit nulls included; names the model does not declare are ignored.
UpdateData(p) == Restrict(p, BaseFields)

\* Event(**item): EventBase plus a required string eventId; attributes the
\* model does not declare (createdAt, updatedAt) are dropped.
EventValid(item) ==
    /\ BaseValid(item)
    /\ Has(item, "eventId") /\ IsStr(item["eventId"])

EventParse(item) ==
    [f \in EventFields |->
        IF f = "eventId" THEN item["eventId"] ELSE BaseParse(item)[f]]

----------------------------------------------------------------------------
\* Identifiers are character sequences.
Whitespace == {" ", "\t"}

RECURSIVE LStrip(_)
LStrip(s) == IF s # <<>> /\ Head(s) \in Whitespace THEN LStrip(Tail(s)) ELSE s

RECURSIVE RStrip(_)
RStrip(s) ==
    IF s # <<>> /\ s[Len(s)] \in Whitespace THEN RStrip(SubSeq(s, 1, Len(s) - 1)) ELSE s

\* str.strip()
Strip(s) == RStrip(LStrip(s))

\* Variant: the check without the strip.
IsEmptyIdUnstripped(id) == id = <<>>

\* not event_id or not event_id.strip()
IsEmptyId(id) == id = <<>> \/ Strip(id) = <<>>

\* str(uuid.uuid4()) for the n-th generated identifier.
UuidOf(n) == [i \in 1..(n + 1) |-> "u"]

----------------------------------------------------------------------------
\* The table operations (single-item atomic).
InTable(s, key) == key \in DOMAIN s

\* Variant: the write is refused when the key already holds an item.
PutItemIfAbsent(s, key, item) ==
    [k \in (DOMAIN s) \cup {key} |-> IF k \in DOMAIN s THEN s[k] ELSE item]

\* Variant: the write leaves the item as the only one in the table.
PutItemAlone(s, key, item) == [k \in {key} |-> item]

\* put_item: replaces the whole item stored under the item's key.
PutItem(s, key, item) ==
    [k \in (DOMAIN s) \cup {key} |-> IF k = key THEN item ELSE s[k]]

\* Variant: the mutation writes the named attributes as a whole new item.
UpdateItemReplacing(s, key, sets) ==
    [k \in (DOMAIN s) \cup {key} |->
        IF k = key THEN sets @@ [eventId |-> Str(key)] ELSE s[k]]

\* Variant: the update writes back an item made of the named attributes, the
\* key and createdAt only, dropping what other updates have set.
UpdateItemKeepingStamps(s, key, sets) ==
    LET old == IF InTable(s, key) THEN s[key] ELSE [f \in {"eventId"} |-> Str(key)]
        kept == (DOMAIN old) \cap {"eventId", "createdAt"}
        new == [f \in kept \cup (DOMAIN sets) |->
                   IF f \in DOMAIN sets THEN sets[f] ELSE old[f]]
    IN  [k \in (DOMAIN s) \cup {key} |-> IF k = key THEN new ELSE s[k]]

\* update_item with a SET expression and no ConditionExpression: sets the
\* named attributes of the item, creating the item when the key is absent.
UpdateItem(s, key, sets) ==
    LET old == IF InTable(s, key) THEN s[key] ELSE [f \in {"eventId"} |-> Str(key)]
        new == [f \in (DOMAIN old) \cup (DOMAIN sets) |->
                   IF f \in DOMAIN sets THEN sets[f] ELSE old[f]]
    IN  [k \in (DOMAIN s) \cup {key} |-> IF k = key THEN new ELSE s[k]]

\* Variant: the deletion empties the table.
DeleteItemAll(s, key) == [k \in {} |-> s[k]]

\* delete_item: removes the item; no error when the key is absent.
DeleteItem(s, key) == [k \in (DOMAIN s) \ {key} |-> s[k]]

\* scan, with FilterExpression '#status = :status' when a filter is given.
Scan(s, filtered, status) ==
    {s[k] : k \in {j \in DOMAIN s :
        ~filtered \/ (Has(s[j], "status") /\ s[j]["status"] = Str(status))}}

----------------------------------------------------------------------------
\* Sample request inputs.
ClientIds == {<<>>, <<" ">>, <<"a">>}
PathIds == ClientIds \cup {UuidOf(n) : n \in 0..(MaxUuid - 1)}

SampleEvent ==
    [title |-> Str("Conf"), description |-> Str("D"), date |-> Str("2024-12-15"),
     location |-> Str("HQ"), capacity |-> Num(50), organizer |-> Str("Org")]

OtherEvent ==
    [title |-> Str("Meetup"), description |-> Str("M"), date |-> Str("2025-01-20"),
     location |-> Str("Lab"), capacity |-> Num(100), organizer |-> Str("Ann"),
     status |-> Str("active")]

LongTitle == "xxxxxxxxxxxxxxxxxxxxxxxxxxxxxxxxxxxxxxxxxxxxxxxxxxxxxxxxxxxxxxxxxxxxxxxxxxxxxxxxxxxxxxxxxxxxxxxxxxxxxxxxxxxxxxxxxxxxxxxxxxxxxxxxxxxxxxxxxxxxxxxxxxxxxxxxxxxxxxxxxxxxxxxxxxxxxxxxxxxxxxxxxxxxxxxxxxxxxxxxx"

CreateBodies ==
    { SampleEvent,
      OtherEvent,
      [SampleEvent EXCEPT !["capacity"] = Num(0)],
      [SampleEvent EXCEPT !["title"] = Str(LongTitle)],
      SampleEvent @@ [status |-> Str("pending")],
      Restrict(SampleEvent, CoreFields \ {"organizer"}) }

\* The request body of create: a sample, with or without an eventId.
CreateInputs ==
    CreateBodies \cup
    {b @@ [eventId |-> Str(id)] : b \in {SampleEvent, OtherEvent}, id \in ClientIds}

UpdateInputs ==
    { EmptyRec,
      [title |-> Str("Conf2")],
      [capacity |-> Num(75)],
      [title |-> Null],
      [status |-> Str("pending")],
      Restrict(OtherEvent, CoreFields) }

\* The status query parameter of list: absent, or a string.
ListFilters == {EmptyRec, [status |-> ""], [status |-> "active"], [status |-> "scheduled"]}

----------------------------------------------------------------------------
\* Requests and responses.
NoBody == <<"none">>
Detail(d) == <<"detail", d>>
EventBody(e) == <<"event", e>>

Request(op, id, body) == [op |-> op, id |-> id, body |-> body]

\* code: the HTTP status (0 while the request is running); calls: the store
\* calls the request has issued; pre: whether the key was in the table at
\* the request's first store call.
Response(code, body, calls, pre) == [code |-> code, body |-> body, calls |-> calls, pre |-> pre]

Running(calls, pre) == Response(0, NoBody, calls, pre)

\* Free workers are interchangeable: the transport hands a new request to
\* the first of them.
Idle(p) == pc[p] = "idle" /\ \A q \in Workers : pc[q] = "idle" => p <= q

\* A finished request's response is sent before any other step is taken:
\* sending it touches neither the table nor another worker, so every
\* interleaving of store calls is still explored.
Quiet == \A q \in Workers : pc[q] # "done"

\* The history of applied updates: the record under `key` was put anew or
\* removed.
Forget(h, key) == [k \in (DOMAIN h) \ {key} |-> h[k]]

\* The history of applied updates after an update wrote `data` under `key`:
\* the fields it names are rewritten, and they are remembered when the update
\* answered 200.
Record(h, key, data, ok) ==
    LET old == IF key \in DOMAIN h THEN h[key] ELSE EmptyRec
        kept == [f \in (DOMAIN old) \ (DOMAIN data) |-> old[f]]
        new == IF ok THEN data @@ kept ELSE kept
    IN  IF DOMAIN new = {}
        THEN Forget(h, key)
        ELSE [k \in (DOMAIN h) \cup {key} |-> IF k = key THEN new ELSE h[k]]

\* Worker p can take a new request.
CanBegin(p) == Idle(p) /\ Quiet /\ nreq < MaxReqs

\* A worker takes a new request and runs it up to `nextpc`.
Begin(p, op, id, body, nextpc, r) ==
    /\ CanBegin(p)
    /\ nreq' = nreq + 1
    /\ req' = [req EXCEPT ![p] = Request(op, id, body)]
    /\ pc' = [pc EXCEPT ![p] = nextpc]
    /\ resp' = [resp EXCEPT ![p] = r]

\* A running request takes its next step.
Continue(p, nextpc, r) ==
    /\ Quiet
    /\ pc' = [pc EXCEPT ![p] = nextpc]
    /\ resp' = [resp EXCEPT ![p] = r]
    /\ UNCHANGED <<req, nreq>>

NoRequest == Request("none", <<>>, EmptyRec)
NoResponse == Response(0, NoBody, <<>>, FALSE)

\* The response has been sent; the worker is free for the next request.
Reply(p) ==
    /\ pc[p] = "done"
    /\ pc' = [pc EXCEPT ![p] = "idle"]
    /\ req' = [req EXCEPT ![p] = NoRequest]
    /\ resp' = [resp EXCEPT ![p] = NoResponse]
    /\ UNCHANGED <<store, now, uuids, nreq, deleted, applied>>

----------------------------------------------------------------------------
\* POST /events

\* Variant: only a missing eventId is replaced (`is not None`).
HasClientIdNotNone(body) == Has(body, "eventId") /\ IsStr(body["eventId"])

\* event.eventId if event.eventId else str(uuid.uuid4())
HasClientId(body) ==
    Has(body, "eventId") /\ IsStr(body["eventId"]) /\ body["eventId"][2] # <<>>

CreateEventId(body, n) == IF HasClientId(body) THEN body["eventId"][2] ELSE UuidOf(n)

\* The item create_event writes.
CreateItem(body, event_id, t) ==
    BaseParse(body) @@ [eventId |-> Str(event_id), createdAt |-> IsoFormat(t)]

\* The table is empty, or holds one record that was created earlier.
Init ==
    /\ store \in {EmptyRec, PutItem(EmptyRec, <<"a">>, CreateItem(SampleEvent, <<"a">>, 0))}
    /\ pc = [p \in Workers |-> "idle"]
    /\ req = [p \in Workers |-> NoRequest]
    /\ resp = [p \in Workers |-> NoResponse]
    /\ now = 0
    /\ uuids = 0
    /\ nreq = 0
    /\ deleted = {}
    /\ applied = EmptyRec

\* Event(eventId=event_id, **event.dict(exclude={'eventId'}))
CreateResult(body, event_id) == EventParse(BaseParse(body) @@ [eventId |-> Str(event_id)])

CreateEvent(p, body, fail) ==
    /\ CanBegin(p)
    /\ IF ~CreateValid(body)
       THEN /\ Begin(p, "create", <<>>, body, "done",
                     Response(422, Detail("validation error"), <<>>, FALSE))
            /\ UNCHANGED <<store, now, uuids, deleted, applied>>
       ELSE LET event_id == CreateEventId(body, uuids)
                pre == InTable(store, event_id)
            IN  /\ HasClientId(body) \/ uuids < MaxUuid
                /\ uuids' = IF HasClientId(body) THEN uuids ELSE uuids + 1
                /\ IF fail
                   THEN /\ Begin(p, "create", <<>>, body, "done",
                                 Response(500, Detail("Failed to create event in database"),
                                          <<"put_item">>, pre))
                        /\ UNCHANGED <<store, deleted, applied>>
                   ELSE /\ store' = PutItem(store, event_id, CreateItem(body, event_id, now))
                        /\ applied' = Forget(applied, event_id)
                        /\ Begin(p, "create", <<>>, body, "done",
                                 Response(201, EventBody(CreateResult(body, event_id)),
                                          <<"put_item">>, pre))
                        /\ deleted' = deleted \ {event_id}
                /\ UNCHANGED now

----------------------------------------------------------------------------
\* GET /events/{event_id}

\* return Event(**item), or the generic 500 when the item does not validate.
DecodeResponse(item, calls, pre) ==
    IF EventValid(item)
    THEN Response(200, EventBody(EventParse(item)), calls, pre)
    ELSE Response(500, Detail("An unexpected error occurred"), calls, pre)

BadId == Response(400, Detail("Event ID cannot be empty"), <<>>, FALSE)
NotFound(calls) == Response(404, Detail("Event not found"), calls, FALSE)

GetEvent(p, id, fail) ==
    /\ CanBegin(p)
    /\ Begin(p, "get", id, EmptyRec, "done",
             IF IsEmptyId(id) THEN BadId
             ELSE IF fail
                  THEN Response(500, Detail("Failed to retrieve event from database"),
                                <<"get_item">>, InTable(store, id))
             ELSE IF ~InTable(store, id) THEN NotFound(<<"get_item">>)
             ELSE DecodeResponse(store[id], <<"get_item">>, TRUE))
    /\ UNCHANGED <<store, now, uuids, deleted, applied>>

----------------------------------------------------------------------------
\* PUT /events/{event_id}

\* Variant: the emptiness check is missing.
NoFieldsUnchecked(update_data) == FALSE

\* if not update_data
NoFields(update_data) == DOMAIN update_data = {}

\* Variant: the SET expression also stamps createdAt.
UpdateSetsStampingCreatedAt(update_data, t) ==
    update_data @@ [updatedAt |-> IsoFormat(t), createdAt |-> IsoFormat(t)]

\* The attributes the SET expression names: the supplied fields plus updatedAt.
UpdateSets(update_data, t) == update_data @@ [updatedAt |-> IsoFormat(t)]

\* The handler up to its existence check and the emptiness check.
UpdateEventRead(p, id, body, fail) ==
    /\ CanBegin(p)
    /\ IF ~UpdateValid(body)
       THEN Begin(p, "update", id, body, "done",
                  Response(422, Detail("validation error"), <<>>, FALSE))
       ELSE IF IsEmptyId(id)
       THEN Begin(p, "update", id, body, "done", BadId)
       ELSE IF fail
       THEN Begin(p, "update", id, body, "done",
                  Response(500, Detail("Failed to update event in database"),
                           <<"get_item">>, InTable(store, id)))
       ELSE IF ~InTable(store, id)
       THEN Begin(p, "update", id, body, "done", NotFound(<<"get_item">>))
       ELSE IF NoFields(UpdateData(body))
       THEN Begin(p, "update", id, body, "done",
                  Response(400, Detail("No fields to update"), <<"get_item">>, TRUE))
       ELSE Begin(p, "update", id, body, "upd_write", Running(<<"get_item">>, TRUE))
    /\ UNCHANGED <<store, now, uuids, deleted, applied>>

\* Variant: a failed update_item is issued a second time, and then succeeds.
UpdateEventWriteRetrying(p, fail) ==
    /\ pc[p] = "upd_write"
    /\ Quiet
    /\ LET id == req[p].id
           calls == IF fail THEN <<"get_item", "update_item", "update_item">>
                    ELSE <<"get_item", "update_item">>
       IN  /\ store' = UpdateItem(store, id, UpdateSets(UpdateData(req[p].body), now))
           /\ Continue(p, "done", DecodeResponse(store'[id], calls, TRUE))
           /\ applied' = Record(applied, id, UpdateData(req[p].body), EventValid(store'[id]))
    /\ UNCHANGED <<now, uuids, deleted>>

\* The handler from table.update_item to its return.
UpdateEventWrite(p, fail) ==
    /\ pc[p] = "upd_write"
    /\ Quiet
    /\ LET id == req[p].id
           calls == <<"get_item", "update_item">>
       IN  IF fail
           THEN /\ Continue(p, "done",
                            Response(500, Detail("Failed to update event in database"), calls, TRUE))
                /\ UNCHANGED <<store, applied>>
           ELSE /\ store' = UpdateItem(store, id, UpdateSets(UpdateData(req[p].body), now))
                /\ Continue(p, "done", DecodeResponse(store'[id], calls, TRUE))
                /\ applied' = Record(applied, id, UpdateData(req[p].body), EventValid(store'[id]))
    /\ UNCHANGED <<now, uuids, deleted>>

----------------------------------------------------------------------------
\* DELETE /events/{event_id}

DeleteEventRead(p, id, fail) ==
    /\ CanBegin(p)
    /\ IF IsEmptyId(id)
       THEN Begin(p, "delete", id, EmptyRec, "done", BadId)
       ELSE IF fail
       THEN Begin(p, "delete", id, EmptyRec, "done",
                  Response(500, Detail("Failed to delete event from database"),
                           <<"get_item">>, InTable(store, id)))
       ELSE IF ~InTable(store, id)
       THEN Begin(p, "delete", id, EmptyRec, "done", NotFound(<<"get_item">>))
       ELSE Begin(p, "delete", id, EmptyRec, "del_write", Running(<<"get_item">>, TRUE))
    /\ UNCHANGED <<store, now, uuids, deleted, applied>>

DeleteEventWrite(p, fail) ==
    /\ pc[p] = "del_write"
    /\ Quiet
    /\ LET id == req[p].id
           calls == <<"get_item", "delete_item">>
       IN  IF fail
           THEN /\ Continue(p, "done",
                            Response(500, Detail("Failed to delete event from database"), calls, TRUE))
                /\ UNCHANGED <<store, deleted, applied>>
           ELSE /\ store' = DeleteItem(store, id)
                /\ deleted' = deleted \cup {id}
                /\ applied' = Forget(applied, id)
                /\ Continue(p, "done",
                            Response(200, <<"message", "Event deleted successfully">>, calls, TRUE))
    /\ UNCHANGED <<now, uuids>>

----------------------------------------------------------------------------
\* GET /events

\* if status: a filter is applied only for a non-empty string.
Filtered(query) == Has(query, "status") /\ query["status"] # ""

ListEvents(p, query, fail) ==
    /\ CanBegin(p)
    /\ LET items == Scan(store, Filtered(query), IF Filtered(query) THEN query["status"] ELSE "")
       IN  Begin(p, "list", <<>>, query, "done",
                 IF fail
                 THEN Response(500, Detail("Failed to retrieve events from database"),
                               <<"scan">>, FALSE)
                 ELSE IF \A e \in items : EventValid(e)
                 THEN Response(200, <<"events", {EventParse(e) : e \in items}>>, <<"scan">>, FALSE)
                 ELSE Response(500, Detail("An unexpected error occurred"), <<"scan">>, FALSE))
    /\ UNCHANGED <<store, now, uuids, deleted, applied>>

----------------------------------------------------------------------------
\* Time passes between two readings of the clock.
Tick ==
    /\ Quiet
    /\ now < MaxClock
    /\ now' = now + 1
    /\ UNCHANGED <<store, pc, req, resp, uuids, nreq, deleted, applied>>

Next ==
    \/ \E p \in Workers, body \in CreateInputs, fail \in BOOLEAN : CreateEvent(p, body, fail)
    \/ \E p \in Workers, id \in PathIds, fail \in BOOLEAN : GetEvent(p, id, fail)
    \/ \E p \in Workers, id \in PathIds, body \in UpdateInputs, fail \in BOOLEAN :
          UpdateEventRead(p, id, body, fail)
    \/ \E p \in Workers, fail \in BOOLEAN : UpdateEventWrite(p, fail)
    \/ \E p \in Workers, id \in PathIds, fail \in BOOLEAN : DeleteEventRead(p, id, fail)
    \/ \E p \in Workers, fail \in BOOLEAN : DeleteEventWrite(p, fail)
    \/ \E p \in Workers, query \in ListFilters, fail \in BOOLEAN : ListEvents(p, query, fail)
    \/ \E p \in Workers : Reply(p)
    \/ Tick

Spec == Init /\ [][Next]_vars

TypeOK ==
    /\ pc \in [Workers -> {"idle", "upd_write", "del_write", "done"}]
    /\ now \in 0..MaxClock
    /\ uuids \in 0..MaxUuid
    /\ nreq \in 0..MaxReqs
    /\ DOMAIN store \subseteq PathIds
    /\ deleted \subseteq PathIds
    /\ DOMAIN applied \subseteq PathIds

----------------------------------------------------------------------------
\* Vocabulary of the properties.

\* Worker p takes a new request in this step.
Started(p) == pc[p] = "idle" /\ pc'[p] # "idle"

\* Worker p's request gets its response in this step.
Finished(p) == pc[p] # "done" /\ pc'[p] = "done"

\* The response reports a failed store call.
StorageError(r) ==
    /\ r.code = 500
    /\ r.body \in {Detail("Failed to create event in database"),
                   Detail("Failed to retrieve events from database"),
                   Detail("Failed to retrieve event from database"),
                   Detail("Failed to update event in database"),
                   Detail("Failed to delete event from database")}

\* The identifier is empty or consists only of whitespace.
Blank(id) == \A i \in 1..Len(id) : id[i] \in Whitespace

Attr(r, f) == IF Has(r, f) THEN r[f] ELSE <<"absent">>

OthersUnchanged(id) ==
    \A k \in ((DOMAIN store) \cup (DOMAIN store')) \ {id} :
        k \in DOMAIN store /\ k \in DOMAIN store' /\ store'[k] = store[k]

----------------------------------------------------------------------------
\* C1: a successful update(R.eventId, P) of a stored record R leaves a
\* record equal to R except that the fields named in P carry P's values and
\* updatedAt is set to the current time; eventId, createdAt and every field
\* P does not name are as in R, the table holds the same keys and no other
\* record changes.  R is the record the table holds when the mutation is
\* applied.
C1_UpdateFrame ==
    [][\A p \in Workers :
          (/\ pc[p] = "upd_write" /\ Finished(p)
           /\ resp'[p].code = 200
           /\ req[p].id \in DOMAIN store)
          => LET id == req[p].id
                 P == req[p].body
                 R == store[id]
                 Rn == store'[id]
             IN  /\ DOMAIN store' = DOMAIN store
                 /\ OthersUnchanged(id)
                 /\ \A f \in DOMAIN P : Attr(Rn, f) = P[f]
                 /\ Attr(Rn, "updatedAt") = IsoFormat(now)
                 /\ \A f \in ((DOMAIN R) \cup (DOMAIN Rn)) \ ((DOMAIN P) \cup {"updatedAt"}) :
                        Attr(Rn, f) = Attr(R, f)]_vars

\* An update has answered 200 while the table holds a second record.
C1_Witness ==
    \E p \in Workers :
        /\ pc[p] = "done" /\ req[p].op = "update" /\ resp[p].code = 200
        /\ req[p].id \in DOMAIN store
        /\ Has(store[req[p].id], "createdAt")
        /\ Cardinality(DOMAIN store) >= 2

\* C2: the mutation of update is conditional on the record existing, so no
\* update step ever adds a key to the table: when the record has vanished
\* between the existence check and the mutation the key stays absent.
C2_UpdateNeverCreates ==
    [][\A p \in Workers :
          (pc[p] = "upd_write" /\ Finished(p))
          => /\ DOMAIN store' \subseteq DOMAIN store
             /\ (req[p].id \notin DOMAIN store /\ ~StorageError(resp'[p]))
                    => resp'[p].code = 404]_vars

\* C3: every stored record has the six core fields present and within their
\* constraints.
C3_StoredRecordsValid ==
    \A k \in DOMAIN store :
        LET r == store[k]
            StrIn(f, hi) == Has(r, f) /\ r[f][1] = "S" /\ Len(r[f][2]) \in 1..hi
        IN  /\ StrIn("title", 200)
            /\ StrIn("description", 2000)
            /\ StrIn("location", 300)
            /\ StrIn("organizer", 200)
            /\ Has(r, "capacity") /\ r["capacity"][1] = "N" /\ r["capacity"][2] \in 1..100000
            /\ Has(r, "status") /\ r["status"][1] = "S"
            /\ r["status"][2] \in {"scheduled", "ongoing", "completed", "cancelled", "active"}

\* C4: after a successful delete(id), and as long as no later create uses
\* the same id, the id has no stored record and every get, update and
\* delete of that id answers 404.
C4_DeletedAnswers404 ==
    [][/\ \A id \in deleted' : id \notin DOMAIN store'
       /\ \A p \in Workers :
            (/\ Started(p)
             /\ req'[p].op \in {"get", "update", "delete"}
             /\ req'[p].id \in deleted
             /\ resp'[p].code # 422
             /\ ~StorageError(resp'[p]))
            => (pc'[p] = "done" /\ resp'[p].code = 404)]_vars

C6_CreateOverwrites ==
    [][\A p \in Workers :
          (/\ Started(p) /\ req'[p].op = "create"
           /\ BaseValid(req'[p].body)
           /\ Has(req'[p].body, "eventId")
           /\ req'[p].body["eventId"][2] \in DOMAIN store
           /\ ~StorageError(resp'[p]))
          => LET body == req'[p].body
                 id == body["eventId"][2]
             IN  /\ pc'[p] = "done" /\ resp'[p].code = 201
                 /\ DOMAIN store' = DOMAIN store
                 /\ OthersUnchanged(id)
                 /\ DOMAIN store'[id] = BaseFields \cup {"eventId", "createdAt"}
                 /\ \A f \in DOMAIN body : store'[id][f] = body[f]
                 /\ store'[id]["createdAt"] = IsoFormat(now)]_vars

\* A create has answered 201 for a key that was already in the table.
C6_Witness ==
    \E p \in Workers :
        /\ pc[p] = "done" /\ req[p].op = "create" /\ resp[p].code = 201
        /\ resp[p].pre

\* C7 as stated: no operation changes the createdAt of a record that stays
\* stored.
C7_CreatedAtNeverChanges ==
    [][\A k \in (DOMAIN store) \cap (DOMAIN store') :
          Attr(store'[k], "createdAt") = Attr(store[k], "createdAt")]_vars

\* C7 amended: update, get, list and delete never change the createdAt of a
\* record that stays stored; it changes only when a successful create with
\* the same eventId replaces the record.
C7_CreatedAtChangedOnlyByCreate ==
    [][\A k \in (DOMAIN store) \cap (DOMAIN store') :
          Attr(store'[k], "createdAt") # Attr(store[k], "createdAt")
          => \E p \in Workers :
                /\ Started(p) /\ req'[p].op = "create"
                /\ resp'[p].code = 201
                /\ resp'[p].body[2]["eventId"] = Str(k)]_vars

\* A record created at one time has been updated at a later time and still
\* carries its createdAt.
C7_Witness ==
    \E k \in DOMAIN store, p \in Workers :
        /\ pc[p] = "done" /\ req[p].op = "update" /\ req[p].id = k
        /\ resp[p].code = 200
        /\ Has(store[k], "createdAt") /\ Has(store[k], "updatedAt")
        /\ store[k]["createdAt"][2] < store[k]["updatedAt"][2]

\* C8: the record returned by a successful create, get or update is the
\* full stored record for that eventId as it stands after the operation,
\* createdAt and updatedAt included.
C8_ReturnsStoredRecord ==
    [][\A p \in Workers :
          (/\ Finished(p)
           /\ req'[p].op \in {"create", "get", "update"}
           /\ resp'[p].code \in {200, 201})
          => LET id == resp'[p].body[2]["eventId"][2]
             IN  /\ id \in DOMAIN store'
                 /\ resp'[p].body[2] = store'[id]]_vars

\* C9: update(id, {}) with an empty field set on a stored record (id not
\* blank) answers 400 "No fields to update", issues no store write and
\* leaves the table, updatedAt included, unchanged.
C9_EmptyUpdateRejected ==
    [][\A p \in Workers :
          (/\ Started(p) /\ req'[p].op = "update"
           /\ DOMAIN req'[p].body = {}
           /\ req'[p].id \in DOMAIN store
           /\ ~Blank(req'[p].id)
           /\ ~StorageError(resp'[p]))
          => /\ pc'[p] = "done"
             /\ resp'[p].code = 400
             /\ resp'[p].body = Detail("No fields to update")
             /\ resp'[p].calls = <<"get_item">>
             /\ store' = store]_vars

\* An update with an empty field set has been rejected for a stored record.
C9_Witness ==
    \E p \in Workers :
        /\ pc[p] = "done" /\ req[p].op = "update"
        /\ DOMAIN req[p].body = {}
        /\ req[p].id \in DOMAIN store
        /\ resp[p].code = 400 /\ resp[p].pre

\* C10: get, update (with a valid payload) and delete called with an
\* eventId that is empty or only whitespace answer 400, never 404, before
\* any store call is issued, and leave the table unchanged.
C10_BlankIdRejected ==
    [][\A p \in Workers :
          (/\ Started(p)
           /\ req'[p].op \in {"get", "update", "delete"}
           /\ Blank(req'[p].id)
           /\ resp'[p].code # 422)
          => /\ pc'[p] = "done"
             /\ resp'[p].code = 400
             /\ resp'[p].calls = <<>>
             /\ store' = store]_vars

\* A whitespace-only identifier has been rejected with 400 although a
\* record is stored under it.
C10_Witness ==
    \E p \in Workers :
        /\ pc[p] = "done" /\ req[p].op \in {"get", "update", "delete"}
        /\ req[p].id = <<" ">>
        /\ req[p].id \in DOMAIN store
        /\ resp[p].code = 400 /\ resp[p].calls = <<>>

\* C11: for every supplied filter value s, the empty string included,
\* list(s) answers 200 with exactly the stored records whose status equals
\* s; list() without a filter answers 200 with every stored record; list
\* never changes the table.  (Records are compared by their eventId.)
C11_ListReturnsMatching ==
    [][\A p \in Workers :
          (/\ Started(p) /\ req'[p].op = "list"
           /\ ~StorageError(resp'[p]))
          => LET query == req'[p].body
                 expected ==
                     IF Has(query, "status")
                     THEN {k \in DOMAIN store :
                              Attr(store[k], "status") = <<"S", query["status"]>>}
                     ELSE DOMAIN store
             IN  /\ store' = store
                 /\ resp'[p].code = 200
                 /\ resp'[p].body[1] = "events"
                 /\ {e["eventId"][2] : e \in resp'[p].body[2]} = expected]_vars

\* C12: every successful create returns a non-empty eventId, and an eventId
\* generated by the system (the request gave none, or an empty one) differs
\* from the eventId of every record created earlier: those still stored and
\* those deleted since.
C12_CreateIdFresh ==
    [][\A p \in Workers :
          (/\ Started(p) /\ req'[p].op = "create"
           /\ resp'[p].code = 201)
          => LET body == req'[p].body
                 id == resp'[p].body[2]["eventId"][2]
                 generated == \/ ~Has(body, "eventId")
                              \/ body["eventId"] = Null
                              \/ body["eventId"] = Str(<<>>)
             IN  /\ id # <<>>
                 /\ id \in DOMAIN store'
                 /\ generated => id \notin (DOMAIN store) \cup deleted]_vars

\* A create that supplied an empty eventId has been given a generated one,
\* next to a record created earlier.
C12_Witness ==
    \E p \in Workers :
        /\ pc[p] = "done" /\ req[p].op = "create" /\ resp[p].code = 201
        /\ Has(req[p].body, "eventId") /\ req[p].body["eventId"] = Str(<<>>)
        /\ resp[p].body[2]["eventId"][2] \in DOMAIN store
        /\ Cardinality(DOMAIN store) >= 2

----------------------------------------------------------------------------
\* The capacity bound: creates and updates of record "a" whose capacity is
\* at and next to the ends of the allowed range.
CapacityValues == {0, 1, CapacityMax, CapacityMax + 1}

CapacityCreateInputs ==
    {[SampleEvent EXCEPT !["capacity"] = Num(c)] @@ [eventId |-> Str(<<"a">>)] :
        c \in CapacityValues}

CapacityUpdateInputs == {[capacity |-> Num(c)] : c \in CapacityValues}

NextCapacity ==
    \/ \E p \in Workers, body \in CapacityCreateInputs, fail \in BOOLEAN :
          CreateEvent(p, body, fail)
    \/ \E p \in Workers, body \in CapacityUpdateInputs, fail \in BOOLEAN :
          UpdateEventRead(p, <<"a">>, body, fail)
    \/ \E p \in Workers, fail \in BOOLEAN : UpdateEventWrite(p, fail)
    \/ \E p \in Workers : Reply(p)
    \/ Tick

SpecCapacity == Init /\ [][NextCapacity]_vars

\* The request was rejected by the validation of its body, before the
\* handler ran.
ValidationError(r) ==
    r.code \in {400, 422} /\ r.body = Detail("validation error") /\ r.calls = <<>>

----------------------------------------------------------------------------
\* Worker p issues a store call in this step and the call fails.
FailedCall(p) ==
    /\ resp'[p].calls # resp[p].calls
    /\ \/ \E body \in CreateInputs : CreateEvent(p, body, TRUE)
       \/ \E id \in PathIds : GetEvent(p, id, TRUE)
       \/ \E id \in PathIds, body \in UpdateInputs : UpdateEventRead(p, id, body, TRUE)
       \/ UpdateEventWrite(p, TRUE)
       \/ \E id \in PathIds : DeleteEventRead(p, id, TRUE)
       \/ DeleteEventWrite(p, TRUE)
       \/ \E query \in ListFilters : ListEvents(p, query, TRUE)

----------------------------------------------------------------------------
\* The eventId a step of worker p works on: the path id of get, update and
\* delete, the id in the returned record of a create that answered 201.
TargetIds(p) ==
    IF req'[p].op \in {"get", "update", "delete"} THEN {req'[p].id}
    ELSE IF req'[p].op = "create" /\ resp'[p].code = 201
         THEN {resp'[p].body[2]["eventId"][2]}
    ELSE {}

\* C15: operations on different eventIds are independent.  A step of a
\* request on one eventId (a store call of create, update or delete, in any
\* interleaving) leaves the stored record, or the absence, of every other
\* eventId as it was; and whether get, update and delete find their record
\* depends on that eventId alone: the answer is 404 exactly when no record
\* is stored under it.
C15_OtherIdsUntouched ==
    [][\A p \in Workers :
          /\ (pc'[p] # pc[p] /\ pc'[p] # "idle")
             => \A a \in ((DOMAIN store) \cup (DOMAIN store')) \ TargetIds(p) :
                   /\ a \in DOMAIN store /\ a \in DOMAIN store'
                   /\ store'[a] = store[a]
          /\ (/\ Started(p) /\ req'[p].op \in {"get", "update", "delete"}
              /\ ~Blank(req'[p].id)
              /\ ~ValidationError(resp'[p])
              /\ ~StorageError(resp'[p]))
             => (resp'[p].code = 404 <=> req'[p].id \notin DOMAIN store)]_vars

\* A create has written its record while an update of another, stored
\* eventId is between its existence check and its mutation.
C15_Witness ==
    \E p, q \in Workers :
        /\ pc[p] = "done" /\ req[p].op = "create" /\ resp[p].code = 201
        /\ pc[q] = "upd_write"
        /\ req[q].id \in DOMAIN store
        /\ req[q].id # resp[p].body[2]["eventId"][2]

----------------------------------------------------------------------------
\* The status attribute: creates and updates of record "a" with every
\* allowed status and with one outside the enumeration, next to the update
\* that names title with an explicit null.
StatusValues == AllowedStatuses \cup {"pending"}

StatusCreateInputs ==
    {SampleEvent @@ [eventId |-> Str(<<"a">>), status |-> Str(v)] : v \in StatusValues}

StatusUpdateInputs == {[status |-> Str(v)] : v \in StatusValues} \cup {[title |-> Null]}

NextStatus ==
    \/ \E p \in Workers, body \in StatusCreateInputs, fail \in BOOLEAN :
          CreateEvent(p, body, fail)
    \/ \E p \in Workers, body \in StatusUpdateInputs, fail \in BOOLEAN :
          UpdateEventRead(p, <<"a">>, body, fail)
    \/ \E p \in Workers, fail \in BOOLEAN : UpdateEventWrite(p, fail)
    \/ \E p \in Workers : Reply(p)
    \/ Tick

SpecStatus == Init /\ [][NextStatus]_vars

\* C16: no transition table is enforced: for every stored record and every
\* status s2 of the enumeration, update(id, {status: s2}) succeeds (200) and
\* the stored status becomes s2; an update or create with a status outside
\* the enumeration fails validation and leaves the table unchanged.
C16_AnyStatusFollows ==
    [][\A p \in Workers :
          /\ (/\ Started(p) /\ req'[p].op = "update"
              /\ DOMAIN req'[p].body = {"status"}
              /\ req'[p].id \in DOMAIN store
              /\ ~StorageError(resp'[p]))
             => /\ store' = store
                /\ IF req'[p].body["status"][2] \in AllowedStatuses
                   THEN pc'[p] = "upd_write"
                   ELSE ValidationError(resp'[p])
          /\ (/\ pc[p] = "upd_write" /\ Finished(p)
              /\ DOMAIN req[p].body = {"status"}
              /\ req[p].id \in DOMAIN store
              /\ ~StorageError(resp'[p]))
             => /\ store'[req[p].id]["status"] = req[p].body["status"]
                /\ resp'[p].code = 200
                /\ resp'[p].body[2]["status"] = req[p].body["status"]
          /\ (/\ Started(p) /\ req'[p].op = "create"
              /\ Has(req'[p].body, "status")
              /\ req'[p].body["status"][2] \notin AllowedStatuses)
             => (ValidationError(resp'[p]) /\ store' = store)]_vars

----------------------------------------------------------------------------
\* Worker p's update is between its get_item and its update_item.
Writing(p) == pc[p] = "upd_write"

\* The fields p's update names.
Named(p) == DOMAIN UpdateData(req[p].body)

\* C17: two concurrent successful updates of one existing record that name
\* disjoint field sets both take effect under every interleaving: the write of
\* one sets its own fields and leaves every field the other names as it is,
\* and every value set by an update answered 200 stays in the stored record
\* until a later write of that field, a create or a delete (no lost update).
C17_NoLostUpdate ==
    [][/\ \A p, q \in Workers :
            (/\ p # q /\ Writing(p) /\ Writing(q) /\ req[p].id = req[q].id
             /\ req[p].id \in DOMAIN store
             /\ Named(p) \cap Named(q) = {}
             /\ Finished(p) /\ ~StorageError(resp'[p]))
            => /\ \A f \in Named(p) : store'[req[p].id][f] = req[p].body[f]
               /\ \A f \in Named(q) :
                     Attr(store'[req[p].id], f) = Attr(store[req[p].id], f)
       /\ \A k \in DOMAIN applied' :
            /\ k \in DOMAIN store'
            /\ \A f \in DOMAIN applied'[k] : Attr(store'[k], f) = applied'[k][f]]_vars

C17_Witness ==
    \E p, q \in Workers :
        /\ p # q /\ Writing(p)
        /\ pc[q] = "done" /\ req[q].op = "update" /\ resp[q].code = 200
        /\ req[p].id = req[q].id /\ req[p].id \in DOMAIN store
        /\ Named(p) # {} /\ Named(q) # {} /\ Named(p) \cap Named(q) = {}
        /\ \A f \in Named(q) : store[req[q].id][f] = req[q].body[f]
        /\ req[q].id \in DOMAIN applied
        /\ Named(q) \subseteq DOMAIN applied[req[q].id]

----------------------------------------------------------------------------
\* The table holds under `id` a record as create_event writes it.
Created(id) ==
    /\ id \in DOMAIN store
    /\ Has(store[id], "createdAt")
    /\ EventValid(store[id])

\* C18: every record written by a successful create is retrievable: while the
\* record is stored, get with its eventId answers 200 with that record, and
\* get, update and delete with its eventId are not rejected as an empty
\* identifier.
C18_CreatedRetrievable ==
    [][\A p \in Workers :
          (/\ Started(p)
           /\ req'[p].op \in {"get", "update", "delete"}
           /\ Created(req'[p].id))
          => /\ resp'[p] # BadId
             /\ (req'[p].op = "get" /\ ~StorageError(resp'[p]))
                => /\ resp'[p].code = 200
                   /\ resp'[p].body = EventBody(EventParse(store[req'[p].id]))]_vars

\* C19: when no store call fails, reads never answer 500: get on an id that
\* has a stored record answers 200 and list answers 200, whatever creates,
\* updates and deletes ran before or run meanwhile.
C19_ReadsNever500 ==
    [][\A p \in Workers :
          (/\ Started(p)
           /\ \/ req'[p].op = "list"
              \/ req'[p].op = "get" /\ ~Blank(req'[p].id) /\ req'[p].id \in DOMAIN store
           /\ ~StorageError(resp'[p]))
          => resp'[p].code = 200]_vars

====
